---- MODULE Spec2Model ----
(***************************************************************************)
(* A model of the DICE incremental engine                                  *)
(* (dice/dice/src/impls/incremental/mod.rs): the per-key task body         *)
(* (spawn_for_key), the lookup / check-deps / compute protocol             *)
(* (eval_entry_versioned, compute, compute_whether_dependencies_changed),  *)
(* together with the collaborators the protocol talks to: the versioned    *)
(* graph behind the state handle's mailbox, the shared task cache and the  *)
(* cancellation layer of the tasks.                                        *)
(*                                                                         *)
(* A task is polled by a worker thread while cancellation is requested by  *)
(* another; a step of a task is the code between two awaits.  A cancelled  *)
(* task is dropped at an await (Abort), unless the awaited value is ready  *)
(* and the poll simply runs on.                                            *)
(***************************************************************************)
EXTENDS Integers, Sequences, FiniteSets, TLC

\* ------------------------------------------------------------------ bounds
MaxVersion == 3
NClients == 2
NValues == 2
\* the runs with cancellation
MaxCancels == 2
CancelVersions == 2
CancelClients == 1

\* the runs with projections
NAwaiters == 2
MaxCalls == 2
ProjectVersions == 2
ProjectClients == 1

\* DiceMap: the key types, the keys of a type, the last version of its
\* engines and the find_cache calls made.
NKeyTypes == 2

NMapKeys == 2

MaxMapVersion == 0

MaxFinds == 3

MaxGen == MaxCancels + 1

Keys == {"A", "B", "C"}
Versions == 1..MaxVersion
Values == 0..(NValues - 1)
Gens == 1..MaxGen
TaskIds == Keys \X Gens
\* what the clients ask for: the top-level target, and the leaf under it
RequestKeys == {"A", "C"}

\* The dependency lists the user's evaluator reads, per key: a chain
\* A -> B -> C, or A reading the two leaves B and C.
Chain == [k \in Keys |-> IF k = "A" THEN <<"B">> ELSE IF k = "B" THEN <<"C">> ELSE <<>>]

Fan == [k \in Keys |-> IF k = "A" THEN <<"B", "C">> ELSE <<>>]

VARIABLES
    version,    \* the version of the live transaction
    epoch,      \* the state's current VersionEpoch
    input,      \* the external input the leaf evaluators read
    deps,       \* the evaluator's dependency lists
    graph,      \* VersionedGraph: key -> stored entry
    mailbox,    \* CoreStateHandle: requests sent and not yet processed
    tasks,      \* every DiceTask of the live transaction
    cache,      \* shared cache: key -> generation of its current task (0: vacant)
    clients,    \* the awaiters outside the engine
    nCancels,   \* cancellations requested so far
    transient,  \* the keys whose evaluator marks its value as invalid
    proj,       \* the promise of the projected key and the callers of project_for_key
    dicemap,    \* DiceMap: the typed map and the erased list
    heap,       \* the legacy engines constructed so far, by identity
    ret,        \* what the last call on the DiceMap or on an engine of it returned
    want,       \* key type -> key -> version -> the value last injected (0: none)
    nFinds      \* find_cache calls made so far

\* The engine map and the engines it registers.
mapvars == <<dicemap, heap, ret, want, nFinds>>

\* The incremental engine, its state thread and its tasks.
enginevars == <<version, epoch, input, deps, graph, mailbox, tasks, cache, clients,
                nCancels, transient, proj>>

vars == <<enginevars, mapvars>>

\* ------------------------------------------------------------ plain helpers
Range(s) == {s[i] : i \in 1..Len(s)}

RECURSIVE SumSeq(_)
SumSeq(s) == IF s = <<>> THEN 0 ELSE Head(s) + SumSeq(Tail(s))

\* ------------------------------------------------------- the versioned graph
NoEntry == [present |-> FALSE, val |-> 0, hist |-> {}, deps |-> <<>>,
            dirtied |-> {}, forced |-> {}]

NoReply == [kind |-> "none", val |-> 0, hist |-> {}, deps |-> <<>>]

\* Verified versions are closed under the stored intervals: two verified
\* versions with no dirtying between them verify what lies between.
CloseHistory(h, dirtied) ==
    {x \in Versions : \E a \in h, b \in h :
        a <= x /\ x <= b /\ ~ \E y \in dirtied : a < y /\ y <= b}

GraphLookupForgetsDeps(g, k, v) ==
    LET e == g[k] IN
    IF ~e.present THEN [NoReply EXCEPT !.kind = "Compute"]
    ELSE IF v \in e.hist
        THEN [kind |-> "Match", val |-> e.val, hist |-> e.hist, deps |-> <<>>]
    ELSE IF \E d \in e.forced : d <= v /\ \A h \in e.hist : h < d
        THEN [NoReply EXCEPT !.kind = "Compute"]
    ELSE [kind |-> "CheckDeps", val |-> e.val, hist |-> e.hist, deps |-> <<>>]

\* VersionedGraph::lookup
GraphLookup(g, k, v) ==
    LET e == g[k] IN
    IF ~e.present THEN [NoReply EXCEPT !.kind = "Compute"]
    ELSE IF v \in e.hist
        THEN [kind |-> "Match", val |-> e.val, hist |-> e.hist, deps |-> <<>>]
    ELSE IF \E d \in e.forced : d <= v /\ \A h \in e.hist : h < d
        THEN [NoReply EXCEPT !.kind = "Compute"]
    ELSE [kind |-> "CheckDeps", val |-> e.val, hist |-> e.hist, deps |-> e.deps]

\* VersionedGraph::update_computed: the entry stored after a write of the
\* current epoch.
GraphUpdate(e, v, val, dps) ==
    IF e.present /\ e.val = val
    THEN [e EXCEPT !.hist = CloseHistory(e.hist \cup {v}, e.dirtied), !.deps = dps]
    ELSE [present |-> TRUE, val |-> val, hist |-> {v}, deps |-> dps,
          dirtied |-> {}, forced |-> {}]

\* ------------------------------------------------------------------- tasks
\* What a task's dependency check was given and how it ended (kept for the
\* properties; the code keeps none of it).
NoCheck == [vv |-> {}, val |-> 0, deps |-> <<>>, att |-> <<>>, outcome |-> "none",
            order |-> <<>>]

Pending == [st |-> "pending", val |-> 0, hist |-> {}]

NoTask == [pc |-> "unused", hstate |-> "Initial", v |-> 0, ep |-> 0, prev |-> 0,
           marked |-> FALSE, cancelled |-> FALSE, polling |-> FALSE, guard |-> FALSE,
           promise |-> Pending, term |-> "none",
           reply |-> NoReply, mm |-> NoReply,
           att |-> <<>>, pending |-> {}, vv |-> {}, vals |-> <<>>, asked |-> <<>>,
           nLookup |-> 0, nEval |-> 0, nAct |-> 0, nUpd |-> 0,
           nUpdNoGuard |-> 0, nApplied |-> 0, adopted |-> FALSE,
           guardFailed |-> FALSE, reused |-> FALSE, chk |-> NoCheck,
           nCycle |-> 0, matched |-> FALSE, nFin |-> 0, ev |-> <<>>]

LookupMsg(k, g, v) ==
    [type |-> "LookupKey", k |-> k, g |-> g, v |-> v, ep |-> 0, val |-> 0, deps |-> <<>>]

UpdateMsgOfOpenEpoch(k, g, v, ep, val, dps) ==
    [type |-> "UpdateComputed", k |-> k, g |-> g, v |-> v, ep |-> epoch, val |-> val, deps |-> dps]

\* StateRequest::UpdateComputed { key, epoch: self.version_epoch, value, deps, resp }
UpdateMsg(k, g, v, ep, val, dps) ==
    [type |-> "UpdateComputed", k |-> k, g |-> g, v |-> v, ep |-> ep, val |-> val, deps |-> dps]

\* What a step of the engine works on: the tasks, the shared cache and the
\* state thread's mailbox, with the version and epoch of the caller's
\* transaction.
World == [tasks |-> tasks, cache |-> cache, mailbox |-> mailbox, v |-> version, ep |-> epoch]

\* The world of a task's step: a task keeps the version and the epoch it was
\* spawned with.
TaskWorld(k, g) == [World EXCEPT !.v = tasks[<<k, g>>].v, !.ep = tasks[<<k, g>>].ep]

SetTask(w, id, t) == [w EXCEPT !.tasks[id] = t]

Done(w) == [w |-> w, ok |-> TRUE]

Ok(val, hist) == [st |-> "ok", val |-> val, hist |-> hist]

Cancelled == [st |-> "cancelled", val |-> 0, hist |-> {}]

\* How often event e is in the log ev.
Count(ev, e) == Cardinality({i \in 1..Len(ev) : ev[i] = e})

\* DiceEventDispatcher: the event e is emitted. The log also notes the return
\* of the evaluator ("evaluated") and the commit by the state ("commit").
Emit(ev, e) == Append(ev, e)

\* scopeguard::defer!: the guards still armed fire when the future returns or
\* is dropped, check_deps_finished(k) in eval_entry_versioned and finished(k)
\* in compute.
ScopeGuards(ev) ==
    LET a == IF Count(ev, "check_deps_started") > Count(ev, "check_deps_finished")
             THEN Emit(ev, "check_deps_finished") ELSE ev
    IN  IF Count(a, "started") > Count(a, "finished") THEN Emit(a, "finished") ELSE a

\* What a finished task no longer holds.
Cleared(t) ==
    [t EXCEPT !.pc = "done", !.guard = FALSE, !.polling = FALSE, !.ev = ScopeGuards(@),
              !.reply = NoReply, !.mm = NoReply,
              !.att = <<>>, !.pending = {}, !.vv = {}, !.vals = <<>>, !.asked = <<>>]

\* DiceTaskHandle::finished(value): the promise resolves to the value.
HandleFinished(t, res) ==
    [Cleared(t) EXCEPT !.hstate = "Finished", !.promise = res, !.term = "finished",
                       !.nFin = @ + 1]

\* The body returns without finished(): the handle is dropped, the promise
\* resolves to Cancelled, and the future itself ran to its end.
HandleDropped(t) ==
    [Cleared(t) EXCEPT !.hstate = "Cancelled", !.promise = Cancelled, !.term = "finished"]

\* The cancellable future is dropped at an await.
FutureDropped(t) ==
    [Cleared(t) EXCEPT !.hstate = "Cancelled", !.promise = Cancelled, !.term = "cancelled"]

\* CancellationContext::try_to_disable_cancellation: fails once a
\* cancellation has taken effect.
TryToDisableCancellation(t) == ~t.cancelled

\* ------------------------------------------------------- the engine's body
NeverWaits(prev) == FALSE

\* spawn_for_key, `if let Some(previous) = previously_cancelled_task`: the
\* body first awaits the termination of the task it replaces (prev: its
\* generation, 0 when there is none).
WaitsForPrevious(prev) == prev # 0

\* spawn_for_key: the task as spawned, up to its first await.
SpawnForKey(w, k, g, prev) ==
    LET waits == WaitsForPrevious(prev)
        t == [NoTask EXCEPT !.pc = IF waits THEN "wait_prev" ELSE "lookup",
                            !.v = w.v, !.ep = w.ep, !.prev = prev,
                            !.nLookup = IF waits THEN 0 ELSE 1]
    IN  [w EXCEPT !.tasks[<<k, g>>] = t,
                  !.cache[k] = g,
                  !.mailbox = IF waits THEN @ ELSE Append(@, LookupMsg(k, g, w.v))]

\* A body that returns Err and leaves the promise of its task unresolved.
SpawnResultLeavesPending(t, res) ==
    IF res.st = "ok" THEN HandleFinished(t, res)
    ELSE [HandleDropped(t) EXCEPT !.promise = Pending]

\* spawn_for_key, `match result`: finished(res) on Ok, the handle dropped on Err.
SpawnResult(t, res) ==
    IF res.st = "ok" THEN HandleFinished(t, res) ELSE HandleDropped(t)

\* The evaluator's dep-tracking context: the deps in the order of their
\* first request.
Record(asked, d) == IF d \in Range(asked) THEN asked ELSE Append(asked, d)

\* The shared cache's entry for a key must be replaced: its task ended
\* cancelled, or is marked cancelled and holds no value yet.
NeedsRespawn(t) ==
    t.promise.st = "cancelled" \/ (t.marked /\ t.promise.st = "pending")

ReqNoDedup(w, k) ==
    LET g == w.cache[k] IN
    IF g < MaxGen THEN [w |-> SpawnForKey(w, k, g + 1, 0), g |-> g + 1, ok |-> TRUE]
    ELSE [w |-> w, g |-> g, ok |-> TRUE]

\* A request for key k through the shared cache: attach to the live task, or
\* spawn one (handing over the cancelled task there is).
Req(w, k) ==
    LET g == w.cache[k] IN
    IF g = 0 THEN [w |-> SpawnForKey(w, k, 1, 0), g |-> 1, ok |-> TRUE]
    ELSE IF ~NeedsRespawn(w.tasks[<<k, g>>]) THEN [w |-> w, g |-> g, ok |-> TRUE]
    ELSE IF g < MaxGen THEN [w |-> SpawnForKey(w, k, g + 1, g), g |-> g + 1, ok |-> TRUE]
    ELSE [w |-> w, g |-> g, ok |-> FALSE]

RECURSIVE ReqAll(_, _)
ReqAll(w, ks) ==
    IF ks = <<>> THEN [w |-> w, att |-> <<>>, ok |-> TRUE]
    ELSE LET r == Req(w, Head(ks))
             rest == ReqAll(r.w, Tail(ks))
         IN  [w |-> rest.w, att |-> <<r.g>> \o rest.att, ok |-> r.ok /\ rest.ok]

\* The user's evaluator: a leaf reads the input, an inner key combines the
\* values of its deps.
UserEvaluate(k, vals) ==
    IF deps[k] = <<>> THEN input[k] ELSE SumSeq(vals) % NValues

\* DiceValue::into_valid_value
IsValid(k) == k \notin transient

StartComputeAsChecking(w, k, g) ==
    LET id == <<k, g>>
        t == w.tasks[id]
        t1 == [t EXCEPT !.hstate = "CheckingDeps", !.nEval = @ + 1, !.reply = NoReply,
                        !.ev = Emit(@, "started"),
                        !.att = <<>>, !.pending = {}, !.vv = {}, !.vals = <<>>]
    IN  IF deps[k] = <<>> THEN Done(SetTask(w, id, [t1 EXCEPT !.pc = "eval"]))
        ELSE LET r == Req(SetTask(w, id, [t1 EXCEPT !.pc = "eval_dep"]), deps[k][1])
             IN  [w |-> [r.w EXCEPT !.tasks[id].att = <<r.g>>,
                                    !.tasks[id].asked = Record(<<>>, deps[k][1])], ok |-> r.ok]

\* compute, up to the evaluator's first await: computing(), started(k), and
\* the evaluator asks for its first dep.
StartCompute(w, k, g) ==
    LET id == <<k, g>>
        t == w.tasks[id]
        t1 == [t EXCEPT !.hstate = "Computing", !.nEval = @ + 1, !.reply = NoReply,
                        !.ev = Emit(@, "started"),
                        !.att = <<>>, !.pending = {}, !.vv = {}, !.vals = <<>>]
    IN  IF deps[k] = <<>> THEN Done(SetTask(w, id, [t1 EXCEPT !.pc = "eval"]))
        ELSE LET r == Req(SetTask(w, id, [t1 EXCEPT !.pc = "eval_dep"]), deps[k][1])
             IN  [w |-> [r.w EXCEPT !.tasks[id].att = <<r.g>>,
                                    !.tasks[id].asked = Record(<<>>, deps[k][1])], ok |-> r.ok]

\* compute, after the evaluator returned: the guard, the activation report,
\* the write (or the transient value, which is not written).
CommitComputed(w, k, g, val, gotGuard) ==
    LET id == <<k, g>>
        t == [w.tasks[id] EXCEPT !.ev = Emit(@, "evaluated")]
    IN  IF ~gotGuard THEN SetTask(w, id, SpawnResult(t, Cancelled))
        ELSE LET t1 == [t EXCEPT !.guard = TRUE, !.nAct = @ + 1] IN
             IF IsValid(k)
             THEN [SetTask(w, id, [t1 EXCEPT !.pc = "commit_wait", !.nUpd = @ + 1,
                                             !.att = <<>>, !.vals = <<>>, !.asked = <<>>])
                   EXCEPT !.mailbox = Append(@, UpdateMsg(k, g, t.v, t.ep, val, t.asked))]
             ELSE SetTask(w, id, SpawnResult(t1, Ok(val, {t.v})))

\* The outcome of try_to_disable_cancellation, noted in the task.
NoteGuard(w, id) ==
    [w EXCEPT !.tasks[id].guardFailed = ~TryToDisableCancellation(w.tasks[id])]

AfterEvaluateUnguarded(w, k, g, val) ==
    CommitComputed(NoteGuard(w, <<k, g>>), k, g, val, TRUE)

\* compute: `match task_handle.cancellation_ctx().try_to_disable_cancellation()`.
AfterEvaluate(w, k, g, val) ==
    CommitComputed(NoteGuard(w, <<k, g>>), k, g, val,
                   TryToDisableCancellation(w.tasks[<<k, g>>]))

ReuseWithoutCommit(w, k, g) ==
    LET t == w.tasks[<<k, g>>]
    IN  SetTask(w, <<k, g>>, SpawnResult([t EXCEPT !.reused = TRUE, !.nAct = @ + 1],
                                         Ok(t.mm.val, t.mm.hist)))

ReuseCommitInCompletionOrder(w, k, g) ==
    LET id == <<k, g>>
        t == w.tasks[id]
        completed == [i \in 1..Len(t.chk.order) |-> t.mm.deps[t.chk.order[i]]]
    IN  [SetTask(w, id, [t EXCEPT !.pc = "reuse_wait", !.reused = TRUE,
                                  !.nAct = @ + 1, !.nUpd = @ + 1,
                                  !.nUpdNoGuard = IF t.guard THEN @ ELSE @ + 1,
                                  !.att = <<>>, !.pending = {}, !.vv = {}])
         EXCEPT !.mailbox = Append(@, UpdateMsg(k, g, t.v, t.ep, t.mm.val, completed))]

\* A reuse commit that sends no deps with the previous value.
ReuseCommitWithoutDeps(w, k, g) ==
    LET id == <<k, g>>
        t == w.tasks[id]
    IN  [SetTask(w, id, [t EXCEPT !.pc = "reuse_wait", !.reused = TRUE,
                                  !.nAct = @ + 1, !.nUpd = @ + 1,
                                  !.nUpdNoGuard = IF t.guard THEN @ ELSE @ + 1,
                                  !.att = <<>>, !.pending = {}, !.vv = {}])
         EXCEPT !.mailbox = Append(@, UpdateMsg(k, g, t.v, t.ep, t.mm.val, <<>>))]

\* eval_entry_versioned, DidDepsChange::NoChange(deps): the activation report
\* and the re-commit of the previous value.
ReuseCommit(w, k, g) ==
    LET id == <<k, g>>
        t == w.tasks[id]
    IN  [SetTask(w, id, [t EXCEPT !.pc = "reuse_wait", !.reused = TRUE,
                                  !.nAct = @ + 1, !.nUpd = @ + 1,
                                  !.nUpdNoGuard = IF t.guard THEN @ ELSE @ + 1,
                                  !.att = <<>>, !.pending = {}, !.vv = {}])
         EXCEPT !.mailbox = Append(@, UpdateMsg(k, g, t.v, t.ep, t.mm.val, t.mm.deps))]

\* CheckDeps with an empty dep list taken as NoChange.
CheckDepsBeginReusesNoDeps(w, k, g, mm) ==
    LET id == <<k, g>>
        t1 == [w.tasks[id] EXCEPT !.hstate = "CheckingDeps", !.mm = mm, !.reply = NoReply,
                                  !.ev = Emit(@, "check_deps_started"),
                                  !.chk = [NoCheck EXCEPT !.vv = mm.hist, !.val = mm.val,
                                                          !.deps = mm.deps]]
    IN  IF mm.deps = <<>>
        THEN Done(ReuseCommit(SetTask(w, id, [t1 EXCEPT !.chk.outcome = "NoDeps",
                                                        !.ev = ScopeGuards(@)]), k, g))
        ELSE LET r == ReqAll(SetTask(w, id, [t1 EXCEPT !.pc = "check_deps",
                                                        !.vv = mm.hist,
                                                        !.pending = 1..Len(mm.deps)]),
                             mm.deps)
             IN  [w |-> [r.w EXCEPT !.tasks[id].att = r.att, !.tasks[id].chk.att = r.att],
                  ok |-> r.ok]

\* eval_entry_versioned, VersionedGraphResult::CheckDeps: checking_deps() and
\* compute_whether_dependencies_changed up to its first await.
CheckDepsBegin(w, k, g, mm) ==
    LET id == <<k, g>>
        t1 == [w.tasks[id] EXCEPT !.hstate = "CheckingDeps", !.mm = mm, !.reply = NoReply,
                                  !.ev = Emit(@, "check_deps_started"),
                                  !.chk = [NoCheck EXCEPT !.vv = mm.hist, !.val = mm.val,
                                                          !.deps = mm.deps]]
    IN  IF mm.deps = <<>>
        THEN StartCompute(SetTask(w, id, [t1 EXCEPT !.chk.outcome = "NoDeps",
                                                    !.ev = ScopeGuards(@)]), k, g)
        ELSE LET r == ReqAll(SetTask(w, id, [t1 EXCEPT !.pc = "check_deps",
                                                        !.vv = mm.hist,
                                                        !.pending = 1..Len(mm.deps)]),
                             mm.deps)
             IN  [w |-> [r.w EXCEPT !.tasks[id].att = r.att, !.tasks[id].chk.att = r.att],
                  ok |-> r.ok]

KeepLatestRanges(vv, ranges) == ranges

\* compute_whether_dependencies_changed:
\* `verified_versions = Cow::Owned(verified_versions.intersect(&dep_version_ranges))`.
FoldRanges(vv, ranges) == vv \cap ranges

AlwaysChanged(vv) == TRUE

\* compute_whether_dependencies_changed: `if verified_versions.is_empty()`.
RangesChanged(vv) == vv = {}

\* One turn of the loop that takes a cancelled dep as a changed one.
CheckDepsStepCancelledAsChanged(w, k, g, i) ==
    LET id == <<k, g>>
        t == [w.tasks[id] EXCEPT !.chk.order = Append(@, i)]
        d == w.tasks[<<t.mm.deps[i], t.att[i]>>].promise
        vv2 == FoldRanges(t.vv, d.hist)
        note(o) == SetTask(w, id, [t EXCEPT !.chk.outcome = o, !.ev = ScopeGuards(@)])
    IN  IF d.st = "cancelled" \/ RangesChanged(vv2) THEN StartCompute(note("Changed"), k, g)
        ELSE IF t.pending = {i} THEN Done(ReuseCommit(note("NoChange"), k, g))
        ELSE Done(SetTask(w, id, [t EXCEPT !.vv = vv2, !.pending = @ \ {i}]))

\* compute_whether_dependencies_changed: one turn of `while let Some(dep_result)`.
CheckDepsStep(w, k, g, i) ==
    LET id == <<k, g>>
        t == [w.tasks[id] EXCEPT !.chk.order = Append(@, i)]
        d == w.tasks[<<t.mm.deps[i], t.att[i]>>].promise
        vv2 == FoldRanges(t.vv, d.hist)
        note(o) == SetTask(w, id, [t EXCEPT !.chk.outcome = o, !.ev = ScopeGuards(@)])
    IN  IF d.st = "cancelled"
        THEN Done(SetTask(w, id, SpawnResult([t EXCEPT !.chk.outcome = "Cancelled"], Cancelled)))
        ELSE IF RangesChanged(vv2) THEN StartCompute(note("Changed"), k, g)
        ELSE IF t.pending = {i} THEN Done(ReuseCommit(note("NoChange"), k, g))
        ELSE Done(SetTask(w, id, [t EXCEPT !.vv = vv2, !.pending = @ \ {i}]))

\* cycles.start_computing_key(k, ..)
StartComputingKey(w, id) == [w EXCEPT !.tasks[id].nCycle = @ + 1]

OnLookupResultRecomputes(w, k, g) ==
    LET id == <<k, g>>
        r == w.tasks[id].reply
    IN  IF r.kind \in {"Match", "Compute"} THEN StartCompute(StartComputingKey(w, id), k, g)
        ELSE CheckDepsBegin(StartComputingKey(w, id), k, g, r)

\* eval_entry_versioned, `match state_result`.
OnLookupResult(w, k, g) ==
    LET id == <<k, g>>
        t == w.tasks[id]
        r == t.reply
    IN  IF r.kind = "Match"
        THEN Done(SetTask(w, id, SpawnResult([t EXCEPT !.matched = TRUE], Ok(r.val, r.hist))))
        ELSE IF r.kind = "Compute" THEN StartCompute(StartComputingKey(w, id), k, g)
        ELSE CheckDepsBegin(StartComputingKey(w, id), k, g, r)

NeverAdopts(prev) == FALSE

\* spawn_for_key, after `previous.termination.await`: adopt the value of a
\* predecessor that finished, otherwise run the protocol.
AdoptsPrevious(prev) == prev.term = "finished" /\ prev.promise.st = "ok"

OnPreviousTerminated(w, k, g) ==
    LET id == <<k, g>>
        t == w.tasks[id]
        prev == w.tasks[<<k, t.prev>>]
    IN  IF AdoptsPrevious(prev)
        THEN SetTask(w, id, [HandleFinished(t, prev.promise) EXCEPT !.adopted = TRUE])
        ELSE [SetTask(w, id, [t EXCEPT !.pc = "lookup", !.nLookup = @ + 1])
              EXCEPT !.mailbox = Append(@, LookupMsg(k, g, t.v))]

\* compute, `eval.evaluate(k, cycles, ..).await?`: the evaluator got the value
\* of the dep it waited for; it asks for the next one or returns.
EvaluateStep(w, k, g) ==
    LET id == <<k, g>>
        t == w.tasks[id]
        n == Len(t.vals) + 1
        d == w.tasks[<<deps[k][n], t.att[1]>>].promise
        vals2 == Append(t.vals, d.val)
    IN  IF d.st = "cancelled" THEN Done(SetTask(w, id, SpawnResult(t, Cancelled)))
        ELSE IF n < Len(deps[k])
        THEN LET r == Req(SetTask(w, id, [t EXCEPT !.vals = vals2]), deps[k][n + 1])
             IN  [w |-> [r.w EXCEPT !.tasks[id].att = <<r.g>>,
                                    !.tasks[id].asked = Record(@, deps[k][n + 1])],
                  ok |-> r.ok]
        ELSE Done(AfterEvaluate(SetTask(w, id, [t EXCEPT !.vals = vals2]), k, g,
                                UserEvaluate(k, vals2)))

\* eval_entry_versioned / compute, `rx.await.unwrap()` after UpdateComputed.
OnUpdateResult(t) ==
    IF t.reply.kind = "Ok" THEN SpawnResult(t, Ok(t.reply.val, t.reply.hist))
    ELSE SpawnResult(t, Cancelled)

\* ------------------------------------------------------------- projection
\* The key computed through project_for_key.
ProjKey == "C"

NoAwaiter == [pc |-> "idle", v |-> 0, ep |-> 0, val |-> 0, valid |-> TRUE,
              ret |-> <<>>, n |-> 0, waited |-> FALSE]

\* The promise of the projected key in the open transaction, what its
\* producer did, and the callers.
NoProjection(n) ==
    [st |-> "pending", val |-> 0, hist |-> {},
     nEval |-> 0, nStarted |-> 0, nFinished |-> 0, nUpd |-> 0, nApplied |-> 0,
     ev |-> <<>>,
     aw |-> [a \in 1..n |-> NoAwaiter]]

Awaiters == DOMAIN proj.aw

RunsAlways(p) == TRUE

\* DicePromise::get_or_complete: the awaiter that finds the promise pending
\* runs the producer.
RunsProducer(p) == p.st = "pending"

\* The value a call of project_for_key returns.
Returned(p, a, val, hist) ==
    [p EXCEPT !.aw[a].pc = "idle", !.aw[a].ret = Append(@, <<val, hist>>)]

\* The producer up to the evaluator's return: started(k), eval.evaluate(k).
Produce(p, a) ==
    [p EXCEPT !.st = "running", !.nStarted = @ + 1, !.nEval = @ + 1,
              !.ev = Emit(Emit(@, "started"), "evaluated"),
              !.aw[a] = [@ EXCEPT !.pc = "running", !.v = version, !.ep = epoch,
                                  !.val = UserEvaluate(ProjKey, <<>>),
                                  !.valid = IsValid(ProjKey), !.n = @ + 1]]

ProjectBeginEager(p, a) ==
    IF p.st = "done"
    THEN Returned([p EXCEPT !.aw[a].n = @ + 1, !.nEval = @ + 1], a, p.val, p.hist)
    ELSE Produce(p, a)

\* project_for_key: promise.get_or_complete(|| ..), up to the evaluator's
\* return when this caller runs the producer.
ProjectBegin(p, a) ==
    IF p.st = "done" THEN Returned([p EXCEPT !.aw[a].n = @ + 1], a, p.val, p.hist)
    ELSE IF RunsProducer(p) THEN Produce(p, a)
    ELSE [p EXCEPT !.aw[a].pc = "blocked", !.aw[a].n = @ + 1, !.aw[a].waited = TRUE]

ProjectWriteOtherValue(mb, me) ==
    IF me.valid
    THEN Append(mb, UpdateMsg(ProjKey, 0, me.v, me.ep, (me.val + 1) % NValues, deps[ProjKey]))
    ELSE mb

ProjectWriteAlways(mb, me) ==
    Append(mb, UpdateMsg(ProjKey, 0, me.v, me.ep, me.val, deps[ProjKey]))

\* project_for_key, `match eval_result.value.dupe().into_valid_value()`: the
\* write is sent and its reply channel dropped; nothing is sent for a
\* transient value.
ProjectWrite(mb, me) ==
    IF me.valid THEN Append(mb, UpdateMsg(ProjKey, 0, me.v, me.ep, me.val, deps[ProjKey]))
    ELSE mb

\* A producer that returns what the graph holds for the key.
ProjectEndFromGraph(p, a) ==
    LET me == p.aw[a] IN
    IF me.ep = epoch
    THEN Returned([p EXCEPT !.st = "done", !.val = graph[ProjKey].val,
                            !.hist = graph[ProjKey].hist \cup {me.v},
                            !.nFinished = @ + 1, !.ev = Emit(@, "finished"),
                            !.nUpd = IF me.valid THEN @ + 1 ELSE @],
                  a, graph[ProjKey].val, graph[ProjKey].hist \cup {me.v})
    ELSE [p EXCEPT !.aw[a] = NoAwaiter]

\* project_for_key, the rest of the producer: finished(k), and the value with
\* CellHistory::verified(v) completes the promise. The promise of a
\* transaction that was dropped meanwhile has no awaiter left.
ProjectEnd(p, a) ==
    LET me == p.aw[a] IN
    IF me.ep = epoch
    THEN Returned([p EXCEPT !.st = "done", !.val = me.val, !.hist = {me.v},
                            !.nFinished = @ + 1, !.ev = Emit(@, "finished"),
                            !.nUpd = IF me.valid THEN @ + 1 ELSE @],
                  a, me.val, {me.v})
    ELSE [p EXCEPT !.aw[a] = NoAwaiter]

\* ----------------------------------------------------------------- actions
Apply(w) ==
    /\ tasks' = w.tasks
    /\ cache' = w.cache
    /\ mailbox' = w.mailbox

\* What the task awaits is there: a poll of the task goes on from this await.
StepReady(ts, k, g) ==
    LET t == ts[<<k, g>>] IN
    CASE t.pc = "wait_prev" -> ts[<<k, t.prev>>].term # "none"
      [] t.pc = "lookup" -> t.reply.kind # "none"
      [] t.pc = "check_deps" ->
            \E i \in t.pending : ts[<<t.mm.deps[i], t.att[i]>>].promise.st # "pending"
      [] t.pc = "eval_dep" ->
            ts[<<deps[k][Len(t.vals) + 1], t.att[1]>>].promise.st # "pending"
      [] t.pc = "eval" -> TRUE
      [] t.pc \in {"commit_wait", "reuse_wait"} -> t.reply.kind # "none"
      [] OTHER -> FALSE

\* The cancellable future is polled: a cancellation that took effect drops
\* it at the start of a poll; only a poll that was under way when the
\* cancellation arrived runs on, up to the next await that is not ready.
Runs(t) == ~t.cancelled \/ t.polling

\* A step of the body of task <<k, g>>.
Step(k, g, w) ==
    /\ Runs(tasks[<<k, g>>])
    /\ Apply([w EXCEPT !.tasks[<<k, g>>].polling = @ /\ StepReady(w.tasks, k, g)])

Idle == [st |-> "idle", k |-> "A", g |-> 0, val |-> 0, hist |-> {}]

Leaves == {k \in Keys : deps[k] = <<>>}

RECURSIVE DependsOn(_, _, _)
DependsOn(k, D, n) ==
    k \in D \/ (n > 0 /\ \E d \in Range(deps[k]) : DependsOn(d, D, n - 1))

Clients == DOMAIN clients

\* ------------------------------------------------------------------ DiceMap
\* The key types S, the keys of one type, the versions and the values of the
\* legacy engines the map registers.
KeyTypes == 1..NKeyTypes

MapKeys == 1..NMapKeys

MapVersions == 0..MaxMapVersion

MapValues == 1..NValues

\* An engine is named by the order of its construction; 0 is None.
NoEngine == 0

\* IncrementalEngine<S> as its constructor leaves it: nothing cached, no key
\* running.
NewEngine(S) ==
    [type |-> S,
     stored |-> [k \in MapKeys |-> [v \in MapVersions |-> 0]],
     running |-> {}]

\* update_injected_value(k, v, val) of the legacy engine.
UpdateInjectedValue(e, k, v, val) == [e EXCEPT !.stored[k][v] = val]

\* get_cached(k, v, m) of the legacy engine: the stored value, no compute.
GetCached(e, k, v) == e.stored[k][v]

\* introspect().len_for_introspection(): the keys the engine holds.
LenForIntrospection(e) ==
    Cardinality({k \in MapKeys : \/ \E v \in MapVersions : e.stored[k][v] # 0
                                 \/ \E v \in MapVersions : <<k, v>> \in e.running})

\* introspect().currently_running_key_count().
EngineRunningKeyCount(e) == Cardinality(e.running)

\* DiceMap::new.
DiceMapNew == [typed |-> [S \in KeyTypes |-> NoEngine], erased |-> <<>>]

\* DiceMap::find_cache_opt.
FindCacheOpt(m, S) == m.typed[S]

\* find_cache that puts a new engine at the front of the erased list.
FindCachePrepends(m, h, S) ==
    IF m.typed[S] # NoEngine
    THEN [map |-> m, heap |-> h, cache |-> m.typed[S]]
    ELSE LET made == Len(h) + 1
         IN  [map |-> [typed |-> [m.typed EXCEPT ![S] = made],
                       erased |-> <<made>> \o m.erased],
              heap |-> Append(h, NewEngine(S)),
              cache |-> made]

\* find_cache with the lookup in the typed map left out: the constructor runs
\* on every call.
FindCacheAlwaysNew(m, h, S) ==
    LET made == Len(h) + 1
    IN  [map |-> [typed |-> [m.typed EXCEPT ![S] = made],
                  erased |-> Append(m.erased, made)],
         heap |-> Append(h, NewEngine(S)),
         cache |-> made]

\* DiceMap::find_cache with h the engines constructed so far: the map, the
\* engines and the engine returned.
FindCache(m, h, S) ==
    IF m.typed[S] # NoEngine
    THEN [map |-> m, heap |-> h, cache |-> m.typed[S]]
    ELSE LET made == Len(h) + 1
         IN  [map |-> [typed |-> [m.typed EXCEPT ![S] = made],
                       erased |-> Append(m.erased, made)],
              heap |-> Append(h, NewEngine(S)),
              cache |-> made]

\* DiceMap::engines.
Engines(m) == m.erased

\* key_count that asks the first registered engine only.
KeyCountOfFirst(m, h) ==
    IF m.erased = <<>> THEN 0 ELSE LenForIntrospection(h[m.erased[1]])

\* DiceMap::key_count.
KeyCount(m, h) ==
    SumSeq([i \in 1..Len(m.erased) |-> LenForIntrospection(h[m.erased[i]])])

\* DiceMap::currently_running_key_count.
CurrentlyRunningKeyCount(m, h) ==
    SumSeq([i \in 1..Len(m.erased) |-> EngineRunningKeyCount(h[m.erased[i]])])

NoRet == [op |-> "none", type |-> 0, key |-> 0, v |-> 0, val |-> 0]

\* An empty map, no engine constructed.
InitDiceMap ==
    /\ dicemap = DiceMapNew
    /\ heap = <<>>
    /\ ret = NoRet
    /\ want = [S \in KeyTypes |-> [k \in MapKeys |-> [v \in MapVersions |-> 0]]]
    /\ nFinds = 0

\* A cold engine: an empty graph, no task, the first version open.
InitWith(n, topologies, unstable, awaiters) ==
    /\ version = 1
    /\ epoch = 1
    /\ deps \in topologies
    /\ input = [k \in Keys |-> 0]
    /\ graph = [k \in Keys |-> NoEntry]
    /\ mailbox = <<>>
    /\ tasks = [id \in TaskIds |-> NoTask]
    /\ cache = [k \in Keys |-> 0]
    /\ clients = [c \in 1..n |-> Idle]
    /\ nCancels = 0
    /\ transient \in SUBSET {k \in unstable : deps[k] = <<>>}
    /\ proj = NoProjection(awaiters)
    /\ InitDiceMap

\* The keys whose evaluator may fail transiently.
Unstable == {"B"}

Init == InitWith(NClients, {Chain, Fan}, Unstable, 0)

InitCancel == InitWith(CancelClients, {Chain}, {}, 0)

InitProject == InitWith(ProjectClients, {Chain}, {ProjKey}, NAwaiters)

\* A client asks for a key (again, when the task it waited for was cancelled).
ClientRequest(c, k) ==
    /\ \/ clients[c].st = "idle"
       \/ clients[c].st = "waiting" /\ tasks[<<clients[c].k, clients[c].g>>].marked
    /\ \A id \in TaskIds : tasks[id].pc # "unused" => tasks[id].ep = epoch
    /\ LET r == Req(World, k) IN
        /\ r.ok
        /\ Apply(r.w)
        /\ clients' = [clients EXCEPT ![c] = [Idle EXCEPT !.st = "waiting", !.k = k, !.g = r.g]]
    /\ UNCHANGED <<mapvars, version, epoch, input, deps, graph, nCancels, transient, proj>>

\* A client's promise resolved.
ClientObserve(c) ==
    /\ clients[c].st = "waiting"
    /\ LET p == tasks[<<clients[c].k, clients[c].g>>].promise IN
        /\ p.st # "pending"
        /\ clients' = [clients EXCEPT ![c] =
                IF p.st = "ok" THEN [@ EXCEPT !.st = "ok", !.val = p.val, !.hist = p.hist]
                ELSE Idle]
    /\ UNCHANGED <<mapvars, version, epoch, input, deps, graph, mailbox, tasks, cache, nCancels, transient, proj>>

\* DiceTask::cancel on the task the cache holds: the task is marked, and the
\* cancellation takes effect unless the task holds the guard.
Cancel(k) ==
    /\ nCancels < MaxCancels
    /\ cache[k] > 0
    /\ LET id == <<k, cache[k]>> IN
        /\ tasks[id].pc # "done"
        /\ ~tasks[id].marked
        /\ tasks' = [tasks EXCEPT ![id].marked = TRUE, ![id].cancelled = ~tasks[id].guard,
                                  ![id].polling = ~tasks[id].guard /\ StepReady(tasks, k, cache[k])]
    /\ nCancels' = nCancels + 1
    /\ UNCHANGED <<mapvars, version, epoch, input, deps, graph, mailbox, cache, clients, transient, proj>>

\* The poll of a cancelled task: its future is dropped at the await it is at.
Abort(k, g) ==
    /\ tasks[<<k, g>>].pc \notin {"unused", "done"}
    /\ tasks[<<k, g>>].cancelled
    /\ tasks' = [tasks EXCEPT ![<<k, g>>] = FutureDropped(@)]
    /\ UNCHANGED <<mapvars, version, epoch, input, deps, graph, mailbox, cache, clients, nCancels, transient, proj>>

\* The state thread handles a LookupKey.
StateLookupKey ==
    /\ mailbox # <<>>
    /\ Head(mailbox).type = "LookupKey"
    /\ LET m == Head(mailbox)
           id == <<m.k, m.g>>
       IN  tasks' = IF tasks[id].pc = "lookup"
                    THEN [tasks EXCEPT ![id].reply = GraphLookup(graph, m.k, m.v)]
                    ELSE tasks
    /\ mailbox' = Tail(mailbox)
    /\ UNCHANGED <<mapvars, version, epoch, input, deps, graph, cache, clients, nCancels, transient, proj>>

\* The state thread handles an UpdateComputed: a write of a stale epoch is
\* dropped and answered Cancelled.
StateUpdateComputed ==
    /\ mailbox # <<>>
    /\ Head(mailbox).type = "UpdateComputed"
    /\ LET m == Head(mailbox)
           id == <<m.k, m.g>>
           fresh == m.ep = epoch
           e2 == GraphUpdate(graph[m.k], m.v, m.val, m.deps)
           rep == IF fresh THEN [kind |-> "Ok", val |-> e2.val, hist |-> e2.hist, deps |-> <<>>]
                  ELSE [NoReply EXCEPT !.kind = "Cancelled"]
       IN  /\ graph' = IF fresh THEN [graph EXCEPT ![m.k] = e2] ELSE graph
           /\ IF m.g = 0
              THEN /\ proj' = [proj EXCEPT !.nApplied = IF fresh THEN @ + 1 ELSE @,
                                            !.ev = IF fresh THEN Emit(@, "commit") ELSE @]
                   /\ UNCHANGED tasks
              ELSE /\ tasks' = [tasks EXCEPT
                         ![id].nApplied = IF fresh THEN @ + 1 ELSE @,
                         ![id].ev = IF fresh THEN Emit(@, "commit") ELSE @,
                         ![id].reply = IF tasks[id].pc \in {"commit_wait", "reuse_wait"}
                                       THEN rep ELSE @]
                   /\ UNCHANGED proj
    /\ mailbox' = Tail(mailbox)
    /\ UNCHANGED <<mapvars, version, epoch, input, deps, cache, clients, nCancels, transient>>

\* spawn_for_key: the previous task's termination resolved.
PreviousTerminated(k, g) ==
    /\ tasks[<<k, g>>].pc = "wait_prev"
    /\ tasks[<<k, tasks[<<k, g>>].prev>>].term # "none"
    /\ Step(k, g, OnPreviousTerminated(TaskWorld(k, g), k, g))
    /\ UNCHANGED <<mapvars, version, epoch, input, deps, graph, clients, nCancels, transient, proj>>

\* eval_entry_versioned: the lookup's reply arrived.
LookupReply(k, g) ==
    /\ tasks[<<k, g>>].pc = "lookup"
    /\ tasks[<<k, g>>].reply.kind # "none"
    /\ LET r == OnLookupResult(TaskWorld(k, g), k, g) IN r.ok /\ Step(k, g, r.w)
    /\ UNCHANGED <<mapvars, version, epoch, input, deps, graph, clients, nCancels, transient, proj>>

\* compute_whether_dependencies_changed: one of the dispatched deps completed.
DepChecked(k, g, i) ==
    /\ tasks[<<k, g>>].pc = "check_deps"
    /\ i \in tasks[<<k, g>>].pending
    /\ tasks[<<tasks[<<k, g>>].mm.deps[i], tasks[<<k, g>>].att[i]>>].promise.st # "pending"
    /\ LET r == CheckDepsStep(TaskWorld(k, g), k, g, i) IN r.ok /\ Step(k, g, r.w)
    /\ UNCHANGED <<mapvars, version, epoch, input, deps, graph, clients, nCancels, transient, proj>>

\* The evaluator of an inner key got the dep it waited for.
EvalDepReady(k, g) ==
    /\ tasks[<<k, g>>].pc = "eval_dep"
    /\ tasks[<<deps[k][Len(tasks[<<k, g>>].vals) + 1], tasks[<<k, g>>].att[1]>>].promise.st # "pending"
    /\ LET r == EvaluateStep(TaskWorld(k, g), k, g) IN r.ok /\ Step(k, g, r.w)
    /\ UNCHANGED <<mapvars, version, epoch, input, deps, graph, clients, nCancels, transient, proj>>

\* The evaluator of a leaf returns.
EvalReturn(k, g) ==
    /\ tasks[<<k, g>>].pc = "eval"
    /\ Step(k, g, AfterEvaluate(TaskWorld(k, g), k, g, UserEvaluate(k, <<>>)))
    /\ UNCHANGED <<mapvars, version, epoch, input, deps, graph, clients, nCancels, transient, proj>>

\* The reply to the task's UpdateComputed arrived.
UpdateReply(k, g) ==
    /\ tasks[<<k, g>>].pc \in {"commit_wait", "reuse_wait"}
    /\ tasks[<<k, g>>].reply.kind # "none"
    /\ Runs(tasks[<<k, g>>])
    /\ tasks' = [tasks EXCEPT ![<<k, g>>] = OnUpdateResult(@)]
    /\ UNCHANGED <<mapvars, version, epoch, input, deps, graph, mailbox, cache, clients, nCancels, transient, proj>>

\* A caller of project_for_key enters get_or_complete.
ProjectCall(a) ==
    /\ proj.aw[a].pc = "idle"
    /\ proj.aw[a].n < MaxCalls
    /\ proj' = ProjectBegin(proj, a)
    /\ UNCHANGED <<mapvars, version, epoch, input, deps, graph, mailbox, tasks, cache, clients,
                   nCancels, transient>>

\* The producer sends its write and completes the promise.
ProjectReturn(a) ==
    /\ proj.aw[a].pc = "running"
    /\ mailbox' = ProjectWrite(mailbox, proj.aw[a])
    /\ proj' = ProjectEnd(proj, a)
    /\ UNCHANGED <<mapvars, version, epoch, input, deps, graph, tasks, cache, clients,
                   nCancels, transient>>

\* A caller that waited for the producer gets the promise's value.
ProjectObserve(a) ==
    /\ proj.aw[a].pc = "blocked"
    /\ proj.st = "done"
    /\ proj' = Returned(proj, a, proj.val, proj.hist)
    /\ UNCHANGED <<mapvars, version, epoch, input, deps, graph, mailbox, tasks, cache, clients,
                   nCancels, transient>>

Quiescent ==
    /\ mailbox = <<>>
    /\ \A id \in TaskIds : tasks[id].pc \in {"unused", "done"}
    /\ \A c \in Clients : clients[c].st # "waiting"
    /\ \A a \in Awaiters : proj.aw[a].pc = "idle"

\* The inputs in D change to nv: the graph marks them, and what depends on
\* them, dirtied at the next version.
Invalidate(D, nv) ==
    /\ input' = [k \in Keys |-> IF k \in D THEN nv ELSE input[k]]
    /\ graph' = [k \in Keys |->
          IF graph[k].present /\ DependsOn(k, D, Cardinality(Keys))
          THEN [graph[k] EXCEPT !.dirtied = @ \cup {version + 1},
                                !.forced = IF k \in D THEN @ \cup {version + 1} ELSE @]
          ELSE graph[k]]

\* The transaction ends and the next version opens: some inputs changed, the
\* graph marks them (and what depends on them) dirtied, some leaf evaluators
\* start or stop failing transiently, and the next transaction starts with an
\* empty task cache.
AdvanceVersion(limit, unstable) ==
    /\ version < limit
    /\ Quiescent
    /\ \E D \in SUBSET Leaves, nv \in Values : Invalidate(D, nv)
    /\ version' = version + 1
    /\ epoch' = epoch + 1
    /\ tasks' = [id \in TaskIds |-> NoTask]
    /\ cache' = [k \in Keys |-> 0]
    /\ clients' = [c \in Clients |-> Idle]
    /\ transient' \in SUBSET (Leaves \cap unstable)
    /\ proj' = NoProjection(Cardinality(Awaiters))
    /\ UNCHANGED <<mapvars, deps, mailbox, nCancels>>

\* The transaction is dropped while work of it is still under way, and the
\* next version opens: the live tasks are cancelled, a running producer and
\* the requests already sent go on with the version and epoch they have.
DropTransaction(limit, unstable) ==
    /\ version < limit
    /\ ~Quiescent
    /\ \E D \in SUBSET Leaves, nv \in Values : Invalidate(D, nv)
    /\ version' = version + 1
    /\ epoch' = epoch + 1
    /\ tasks' = [id \in TaskIds |->
          IF tasks[id].pc \in {"unused", "done"} \/ tasks[id].marked THEN tasks[id]
          ELSE [tasks[id] EXCEPT !.marked = TRUE, !.cancelled = ~tasks[id].guard,
                                 !.polling = ~tasks[id].guard /\ StepReady(tasks, id[1], id[2])]]
    /\ clients' = [c \in Clients |-> Idle]
    /\ transient' \in SUBSET (Leaves \cap unstable)
    /\ proj' = [NoProjection(Cardinality(Awaiters)) EXCEPT
                   !.aw = [a \in Awaiters |-> IF proj.aw[a].pc = "running"
                                              THEN [proj.aw[a] EXCEPT !.ret = <<>>]
                                              ELSE NoAwaiter]]
    /\ UNCHANGED <<mapvars, deps, mailbox, cache, nCancels>>

\* The steps of the engine and of the state thread.
Engine ==
    \/ \E c \in Clients, k \in RequestKeys : ClientRequest(c, k)
    \/ \E c \in Clients : ClientObserve(c)
    \/ StateLookupKey
    \/ StateUpdateComputed
    \/ \E k \in Keys, g \in Gens : LookupReply(k, g)
    \/ \E k \in Keys, g \in Gens, i \in 1..Cardinality(Keys) : DepChecked(k, g, i)
    \/ \E k \in Keys, g \in Gens : EvalDepReady(k, g)
    \/ \E k \in Keys, g \in Gens : EvalReturn(k, g)
    \/ \E k \in Keys, g \in Gens : UpdateReply(k, g)

\* Transactions over successive versions, no request is cancelled.
Next ==
    \/ Engine
    \/ AdvanceVersion(MaxVersion, Unstable)

Spec == Init /\ [][Next]_vars

\* Requests are cancelled and asked again.
NextCancel ==
    \/ Engine
    \/ \E k \in Keys : Cancel(k)
    \/ \E k \in Keys, g \in Gens : Abort(k, g)
    \/ \E k \in Keys, g \in Gens : PreviousTerminated(k, g)
    \/ AdvanceVersion(CancelVersions, {})

SpecCancel == InitCancel /\ [][NextCancel]_vars

\* Requests are cancelled while a key revalidates two deps.
InitCancelFan == InitWith(CancelClients, {Fan}, {}, 0)

SpecCancelFan == InitCancelFan /\ [][NextCancel]_vars

\* The projected key is computed through project_for_key as well, and a
\* transaction may be dropped with work under way.
NextProject ==
    \/ Engine
    \/ \E a \in Awaiters : ProjectCall(a)
    \/ \E a \in Awaiters : ProjectReturn(a)
    \/ \E a \in Awaiters : ProjectObserve(a)
    \/ \E k \in Keys, g \in Gens : Abort(k, g)
    \/ DropTransaction(ProjectVersions, {ProjKey})
    \/ AdvanceVersion(ProjectVersions, {ProjKey})

SpecProject == InitProject /\ [][NextProject]_vars

\* ------------------------------------------------------- the DiceMap's calls
\* find_cache::<S>(new), new constructing an engine of S.
MapFindCache(S) ==
    /\ nFinds < MaxFinds
    /\ LET r == FindCache(dicemap, heap, S)
       IN  /\ dicemap' = r.map
           /\ heap' = r.heap
           /\ ret' = [NoRet EXCEPT !.op = "find_cache", !.type = S, !.val = r.cache]
    /\ nFinds' = nFinds + 1
    /\ UNCHANGED <<want, enginevars>>

\* find_cache_opt::<S>().
MapFindCacheOpt(S) ==
    /\ ret' = [NoRet EXCEPT !.op = "find_cache_opt", !.type = S,
                            !.val = FindCacheOpt(dicemap, S)]
    /\ UNCHANGED <<dicemap, heap, want, nFinds, enginevars>>

\* update_injected_value on the engine the map holds for S.
MapInject(S, k, v, val) ==
    /\ FindCacheOpt(dicemap, S) # NoEngine
    /\ LET e == FindCacheOpt(dicemap, S)
       IN  /\ \A u \in MapVersions : <<k, u>> \notin heap[e].running
           /\ heap' = [heap EXCEPT ![e] = UpdateInjectedValue(@, k, v, val)]
    /\ want' = [want EXCEPT ![S][k][v] = val]
    /\ ret' = [NoRet EXCEPT !.op = "update_injected_value", !.type = S, !.key = k,
                            !.v = v, !.val = val]
    /\ UNCHANGED <<dicemap, nFinds, enginevars>>

\* get_cached on the engine the map holds for S, of a value it has.
MapGetCached(S, k, v) ==
    /\ FindCacheOpt(dicemap, S) # NoEngine
    /\ LET e == FindCacheOpt(dicemap, S)
       IN  /\ GetCached(heap[e], k, v) # 0
           /\ ret' = [NoRet EXCEPT !.op = "get_cached", !.type = S, !.key = k, !.v = v,
                                   !.val = GetCached(heap[e], k, v)]
    /\ UNCHANGED <<dicemap, heap, want, nFinds, enginevars>>

\* A key the engine has no value of at v starts to be computed.
MapComputeStart(S, k, v) ==
    /\ FindCacheOpt(dicemap, S) # NoEngine
    /\ LET e == FindCacheOpt(dicemap, S)
       IN  /\ GetCached(heap[e], k, v) = 0
           /\ \A u \in MapVersions : <<k, u>> \notin heap[e].running
           /\ heap' = [heap EXCEPT ![e].running = @ \cup {<<k, v>>}]
    /\ UNCHANGED <<dicemap, ret, want, nFinds, enginevars>>

\* The compute of a running key ends and its value is stored.
MapComputeEnd(S, k, v) ==
    /\ FindCacheOpt(dicemap, S) # NoEngine
    /\ LET e == FindCacheOpt(dicemap, S)
       IN  /\ <<k, v>> \in heap[e].running
           /\ \E val \in MapValues :
                 heap' = [heap EXCEPT ![e].running = @ \ {<<k, v>>},
                                      ![e].stored[k][v] = val]
    /\ UNCHANGED <<dicemap, ret, want, nFinds, enginevars>>

\* key_count().
MapKeyCount ==
    /\ ret' = [NoRet EXCEPT !.op = "key_count", !.val = KeyCount(dicemap, heap)]
    /\ UNCHANGED <<dicemap, heap, want, nFinds, enginevars>>

\* currently_running_key_count().
MapRunningKeyCount ==
    /\ ret' = [NoRet EXCEPT !.op = "currently_running_key_count",
                            !.val = CurrentlyRunningKeyCount(dicemap, heap)]
    /\ UNCHANGED <<dicemap, heap, want, nFinds, enginevars>>

\* The map alone: no client of the incremental engine.
InitMap == InitWith(0, {Chain}, {}, 0)

NextMap ==
    \/ \E S \in KeyTypes : MapFindCache(S)
    \/ \E S \in KeyTypes : MapFindCacheOpt(S)
    \/ \E S \in KeyTypes, k \in MapKeys, v \in MapVersions, val \in MapValues :
          MapInject(S, k, v, val)
    \/ \E S \in KeyTypes, k \in MapKeys, v \in MapVersions : MapGetCached(S, k, v)
    \/ \E S \in KeyTypes, k \in MapKeys, v \in MapVersions : MapComputeStart(S, k, v)
    \/ \E S \in KeyTypes, k \in MapKeys, v \in MapVersions : MapComputeEnd(S, k, v)
    \/ MapKeyCount
    \/ MapRunningKeyCount

SpecMap == InitMap /\ [][NextMap]_vars

\* ---------------------------------------------------------------- properties
\* The evaluator calls made for key k in the open transaction.
EvalCalls(k) == SumSeq([g \in Gens |-> tasks[<<k, g>>].nEval])

\* A live task that has not reached its commit phase.
BeforeCommit(t) == t.pc \in {"lookup", "check_deps", "eval", "eval_dep"}

Evaluating(t) == t.pc \in {"eval", "eval_dep"}

\* The promise a resolved dep of a dependency check handed to the check.
DepRanges(t, i) == tasks[<<t.chk.deps[i], t.chk.att[i]>>].promise

DepsResolved(t) ==
    /\ t.chk.outcome \in {"Changed", "NoChange"}
    /\ \A i \in 1..Len(t.chk.deps) : DepRanges(t, i).st = "ok"

\* C1: for each key of the open epoch at most one live task has not yet
\* reached the commit phase, whatever requests, cancellations and re-requests
\* interleave.
C1_OneTaskInFlight ==
    \A k \in Keys : Cardinality({g \in Gens : BeforeCommit(tasks[<<k, g>>])}) <= 1

\* C2: concurrent requests for a key cause at most one evaluator call for
\* every key, and all the awaiters of a key receive the same value and history.
C2_RequestsDeduplicated ==
    /\ \A k \in Keys : EvalCalls(k) <= 1
    /\ \A c1 \in Clients, c2 \in Clients :
        (clients[c1].st = "ok" /\ clients[c2].st = "ok" /\ clients[c1].k = clients[c2].k)
            => (clients[c1].val = clients[c2].val /\ clients[c1].hist = clients[c2].hist)

\* Two clients wait for the one task of A on a cold cache while it evaluates.
C2_Witness ==
    /\ version = 1
    /\ clients[1].st = "waiting" /\ clients[2].st = "waiting"
    /\ clients[1].k = "A" /\ clients[2].k = "A"
    /\ clients[1].g = clients[2].g
    /\ Evaluating(tasks[<<"A", clients[1].g>>])

\* C3: a task whose try_to_disable_cancellation failed after evaluate sends
\* no UpdateComputed, reports no activation, changes nothing in the graph and
\* ends Cancelled.
C3_GuardFailedNoWrite ==
    \A id \in TaskIds :
        tasks[id].guardFailed =>
            /\ tasks[id].nUpd = 0
            /\ tasks[id].nAct = 0
            /\ tasks[id].nApplied = 0
            /\ tasks[id].pc = "done"
            /\ tasks[id].promise = Cancelled

C3_Witness ==
    \E id \in TaskIds : tasks[id].guardFailed /\ tasks[id].nEval = 1

\* C4: every UpdateComputed a task sends, for a fresh value or for a reused
\* one, is sent while the task holds the guard.
C4_WritesHoldGuard ==
    \A id \in TaskIds : tasks[id].nUpdNoGuard = 0

\* C5: no task that sent an UpdateComputed has its promise resolve to
\* Cancelled: either the write is made and the task can no longer be
\* cancelled, or the task ends Cancelled and wrote nothing.
C5_CommitAtomic ==
    \A id \in TaskIds : tasks[id].promise.st = "cancelled" => tasks[id].nUpd = 0

\* C6: a task spawned over a predecessor that terminated Finished with an Ok
\* value ends with exactly that value, and makes no LookupKey, no evaluator
\* call, no activation report and no UpdateComputed.
C6_RevivalAdopts ==
    \A k \in Keys, g \in Gens :
        LET t == tasks[<<k, g>>]
            prev == tasks[<<k, t.prev>>]
        IN  (t.prev # 0 /\ (t.adopted \/ t.nLookup > 0)
                /\ prev.term = "finished" /\ prev.promise.st = "ok")
            => /\ t.adopted
               /\ t.pc = "done"
               /\ t.promise = prev.promise
               /\ t.nLookup = 0 /\ t.nEval = 0 /\ t.nAct = 0 /\ t.nUpd = 0

C6_Witness ==
    \E k \in Keys, g \in Gens :
        /\ tasks[<<k, g>>].adopted
        /\ tasks[<<k, g>>].promise.st = "ok"
        /\ tasks[<<k, tasks[<<k, g>>].prev>>].marked

\* C7: a task spawned over a cancelled predecessor sends its LookupKey and
\* evaluates only after the predecessor terminated, evaluates at most once,
\* and never evaluates while the predecessor does.
C7_SuccessorWaits ==
    \A k \in Keys, g \in Gens :
        LET t == tasks[<<k, g>>]
            prev == tasks[<<k, t.prev>>]
        IN  t.prev # 0 =>
            /\ (t.nLookup > 0 \/ t.nEval > 0) => prev.term # "none"
            /\ t.nLookup <= 1 /\ t.nEval <= 1
            /\ ~(Evaluating(t) /\ Evaluating(prev))

C7_Witness ==
    \E k \in Keys, g \in Gens :
        /\ tasks[<<k, g>>].prev # 0
        /\ tasks[<<k, tasks[<<k, g>>].prev>>].promise.st = "cancelled"
        /\ tasks[<<k, g>>].nEval = 1
        /\ tasks[<<k, g>>].promise.st = "ok"

\* A task that went through a NoChange revalidation and returned a value.
Revalidated(t) == t.reused /\ t.promise.st = "ok"

\* C8 as stated: after a NoChange revalidation at v2 of a value verified at
\* v1, the evaluator was not called, the value returned is the previous one,
\* and the stored history verifies every version of v1..v2.
C8_ClosedInterval ==
    \A k \in Keys, g \in Gens :
        LET t == tasks[<<k, g>>] IN
        Revalidated(t) =>
            /\ t.nEval = 0
            /\ t.promise.val = t.chk.val
            /\ \A v1 \in t.chk.vv : \A x \in v1..t.v : x \in graph[k].hist

\* C8: after a NoChange revalidation at v2 of a value verified at v1, the
\* evaluator was not called, the value returned and stored is the previous
\* one, the stored history verifies v1 and v2, and it verifies the versions
\* between them when no dirtying touched the key after v1.
C8_HistoryExtended ==
    \A k \in Keys, g \in Gens :
        LET t == tasks[<<k, g>>]
            e == graph[k]
        IN  Revalidated(t) =>
            /\ t.nEval = 0
            /\ t.promise.val = t.chk.val
            /\ e.val = t.chk.val
            /\ t.promise.hist = e.hist
            /\ t.v \in e.hist
            /\ \A v1 \in t.chk.vv :
                /\ v1 \in e.hist
                /\ (~ \E y \in e.dirtied : v1 < y /\ y <= t.v)
                      => \A x \in v1..t.v : x \in e.hist

\* A revalidation two versions after the value was computed.
C8_Witness ==
    \E k \in Keys, g \in Gens :
        /\ Revalidated(tasks[<<k, g>>])
        /\ \E v1 \in tasks[<<k, g>>].chk.vv : v1 + 1 < tasks[<<k, g>>].v

\* C9 as stated: with no dep cancelled, the check ends Changed if some dep's
\* verified ranges miss the mismatch's verified versions, and NoChange if
\* every dep's verified ranges meet them.
C9_EachDepIntersects ==
    \A id \in TaskIds :
        LET t == tasks[id] IN
        DepsResolved(t) =>
            /\ (\E i \in 1..Len(t.chk.deps) : DepRanges(t, i).hist \cap t.chk.vv = {})
                  => t.chk.outcome = "Changed"
            /\ (\A i \in 1..Len(t.chk.deps) : DepRanges(t, i).hist \cap t.chk.vv # {})
                  => t.chk.outcome = "NoChange"

\* C9: with no dep cancelled, the check ends Changed exactly when no version
\* is verified by the mismatch and by every dep together, and NoChange
\* exactly when some version is.
C9_CommonVersion ==
    \A id \in TaskIds :
        LET t == tasks[id]
            common == {x \in t.chk.vv :
                          \A i \in 1..Len(t.chk.deps) : x \in DepRanges(t, i).hist}
        IN  DepsResolved(t) => (t.chk.outcome = "Changed" <=> common = {})

\* Every dep meets the mismatch's verified versions, no version is common to
\* all, and the check ended Changed.
C9_Witness ==
    \E id \in TaskIds :
        /\ DepsResolved(tasks[id])
        /\ Len(tasks[id].chk.deps) = 2
        /\ \A i \in 1..2 : DepRanges(tasks[id], i).hist \cap tasks[id].chk.vv # {}
        /\ tasks[id].chk.outcome = "Changed"

\* The chain was computed at version 1, C was dirtied at version 2 and
\* evaluated to its old value, and the request for A at version 2 returned.
EarlyCutoffCase ==
    /\ deps = Chain
    /\ version = 2
    /\ \A k \in Keys : graph[k].present /\ 1 \in graph[k].hist
    /\ 2 \in graph["C"].forced
    /\ cache["A"] > 0
    /\ tasks[<<"A", cache["A"]>>].promise.st = "ok"

\* C10: in the chain A -> B -> C computed at version 1, when C is dirtied at
\* version 2 and evaluates to its old value, only C's evaluator runs at
\* version 2 and the histories of A, B and C verify versions 1 and 2.
C10_EarlyCutoff ==
    EarlyCutoffCase =>
        /\ EvalCalls("C") = 1
        /\ EvalCalls("B") = 0
        /\ EvalCalls("A") = 0
        /\ \A k \in Keys : {1, 2} \subseteq graph[k].hist

C10_Witness == EarlyCutoffCase /\ tasks[<<"C", 1>>].nEval = 1

\* The calls of project_for_key that returned in the open transaction.
Returns == {<<a, i>> \in Awaiters \X (1..MaxCalls) : i <= Len(proj.aw[a].ret)}

\* The tasks of the open transaction that computed key k.
Computed(k) ==
    {g \in Gens : tasks[<<k, g>>].v = version /\ tasks[<<k, g>>].ep = epoch
                  /\ tasks[<<k, g>>].nEval > 0 /\ tasks[<<k, g>>].promise.st = "ok"}

\* C11: a transient evaluator result is never written, on the async path and
\* on the projection path: no UpdateComputed is sent for it, the caller gets
\* the value with a history verified only at the requested version, and a
\* lookup of the key at that version is no Match.
C11_TransientNotWritten ==
    \A k \in transient :
        /\ \A i \in 1..Len(mailbox) :
              (mailbox[i].type = "UpdateComputed" /\ mailbox[i].k = k)
                  => mailbox[i].v # version
        /\ GraphLookup(graph, k, version).kind # "Match"
        /\ \A g \in Computed(k) :
              tasks[<<k, g>>].nUpd = 0 /\ tasks[<<k, g>>].promise.hist = {version}
        /\ k = ProjKey =>
              /\ proj.nUpd = 0 /\ proj.nApplied = 0
              /\ \A r \in Returns : proj.aw[r[1]].ret[r[2]][2] = {version}

\* The projected key is transient, and both a task and a projection
\* returned its value.
C11_Witness ==
    /\ ProjKey \in transient
    /\ Computed(ProjKey) # {}
    /\ Returns # {}

\* The tasks whose lookup was answered Match.
Matched == {id \in TaskIds : tasks[id].matched}

\* The task's lookup was answered Match and the task takes its next step
\* (it is not dropped by a cancellation).
ReturnsMatch(id) ==
    /\ tasks[id].pc = "lookup"
    /\ tasks[id].reply.kind = "Match"
    /\ tasks'[id] # tasks[id]
    /\ tasks'[id].pc # "lookup"
    /\ tasks'[id].term # "cancelled"

\* C12: when the lookup answers Match, the task finishes with the stored
\* entry (value and history) of the answer, and the step touches nothing
\* else: no message is sent (no UpdateComputed, no lookup of a dep spawned),
\* no task is spawned, the graph is unchanged; the task never called the
\* evaluator, reported no activation, sent no write, ran no dep check and
\* never told the cycle detector that the key started computing.
C12_MatchFrame ==
    /\ [](\A id \in Matched :
            /\ tasks[id].nEval = 0 /\ tasks[id].nAct = 0 /\ tasks[id].nUpd = 0
            /\ tasks[id].nCycle = 0 /\ tasks[id].chk = NoCheck
            /\ tasks[id].hstate = "Finished" /\ tasks[id].promise.st = "ok")
    /\ [][\A id \in TaskIds : ReturnsMatch(id) =>
            /\ tasks' = [tasks EXCEPT ![id] =
                    [HandleFinished(@, Ok(@.reply.val, @.reply.hist)) EXCEPT !.matched = TRUE]]
            /\ UNCHANGED <<mailbox, cache, graph, proj>>]_vars

C12_Witness ==
    \E id \in Matched : tasks[id].v = version /\ tasks[id].promise.hist # {version}

\* C13: the calls of project_for_key on one promise (one key, version and
\* epoch) all return the same value with the same history, and the sync
\* evaluator ran once for all of them: a call that finds the promise
\* completed does not invoke it.
C13_ProjectionIdempotent ==
    /\ proj.nEval <= 1
    /\ \A r \in Returns : /\ proj.st = "done" /\ proj.nEval = 1
                           /\ proj.aw[r[1]].ret[r[2]] = <<proj.val, proj.hist>>

\* One caller called twice and got two values.
C13_Witness == \E a \in Awaiters : Len(proj.aw[a].ret) = 2

\* The callers that run the producer of the open transaction's promise.
Producers == {a \in Awaiters : proj.aw[a].pc = "running" /\ proj.aw[a].ep = epoch}

\* The writes of the projection for the open transaction that are in the mailbox.
ProjectionWrites ==
    {i \in 1..Len(mailbox) : /\ mailbox[i].type = "UpdateComputed" /\ mailbox[i].g = 0
                             /\ mailbox[i].ep = epoch}

\* C14: with callers entering get_or_complete of one promise concurrently,
\* at most one of them runs the producer at any time and exactly one has run
\* it once the promise is completed; a caller waits only for a producer that
\* runs or has completed the promise; per promise the evaluator, the started and finished events and the
\* UpdateComputed occur at most once, and every caller that returned got the
\* promise's one result.
C14_OneProducer ==
    /\ Cardinality(Producers) <= 1
    /\ proj.st = "running" <=> Producers # {}
    /\ proj.nStarted = proj.nEval /\ proj.nStarted = Cardinality(Producers) + proj.nFinished
    /\ proj.nFinished = (IF proj.st = "done" THEN 1 ELSE 0)
    /\ proj.nUpd <= proj.nFinished
    /\ Cardinality(ProjectionWrites) + proj.nApplied = proj.nUpd
    /\ \A a \in Awaiters : proj.aw[a].pc = "blocked" => proj.st \in {"running", "done"}
    /\ \A a, b \in Awaiters :
          (proj.aw[a].ret # <<>> /\ proj.aw[b].ret # <<>>) =>
              proj.aw[a].ret[1] = proj.aw[b].ret[1]

\* A caller waited for the producer another caller ran, and both returned.
C14_Witness ==
    \E a, b \in Awaiters :
        /\ a # b /\ proj.aw[a].waited /\ proj.aw[a].ret # <<>> /\ proj.aw[b].ret # <<>>
        /\ proj.nUpd = 1

\* C15: a task on which a cancellation took effect (it was cancelled while it
\* held no guard) ends with its promise resolved to Cancelled and finished()
\* not called. A promise resolves once, so a task that ended otherwise never
\* gets there, however the steps are scheduled.
C15_CancelledResolvesCancelled ==
    \A id \in TaskIds :
        (tasks[id].cancelled /\ tasks[id].pc = "done") =>
            tasks[id].promise.st = "cancelled" /\ tasks[id].hstate = "Cancelled"

\* The task got the guard from try_to_disable_cancellation: it holds it, or
\* it ended after the activation report of compute.
HeldGuard(t) == t.guard \/ (t.pc = "done" /\ t.nEval > 0 /\ t.nAct > 0)

\* C16: no task holds the guard while a cancellation of it is in effect. A
\* task that got the guard never observes a cancellation: a canceller that
\* arrives while the guard is held only marks the task, which goes on to the
\* end of its body and is never dropped at an await. A task whose try_to_disable_cancellation
\* returned None had been cancelled before, and it aborted: no guard, no
\* activation report, no write, the promise resolved to Cancelled.
C16_OneWinner ==
    \A id \in TaskIds :
        /\ ~(tasks[id].guard /\ tasks[id].cancelled)
        /\ HeldGuard(tasks[id]) =>
              /\ ~tasks[id].cancelled /\ ~tasks[id].guardFailed
              /\ tasks[id].pc # "done" => Runs(tasks[id])
              /\ tasks[id].pc = "done" => tasks[id].term = "finished"
        /\ tasks[id].guardFailed =>
              /\ tasks[id].cancelled /\ tasks[id].pc = "done"
              /\ tasks[id].promise.st = "cancelled"
              /\ tasks[id].nAct = 0 /\ tasks[id].nUpd = 0

\* A canceller came while the guard was held and the task finished with its
\* value, and the try_to_disable_cancellation of another task failed.
C16_Witness ==
    /\ \E id \in TaskIds : /\ tasks[id].marked /\ HeldGuard(tasks[id])
                            /\ tasks[id].pc = "done" /\ tasks[id].promise.st = "ok"
    /\ \E id \in TaskIds : tasks[id].guardFailed

\* The state thread takes an UpdateComputed off its mailbox.
TakesUpdate ==
    /\ mailbox # <<>>
    /\ Head(mailbox).type = "UpdateComputed"
    /\ mailbox' = Tail(mailbox)

\* C17: an UpdateComputed whose epoch is not the state's current epoch
\* changes no graph entry (value, deps, history), and its sender, when it
\* waits for the answer, is answered Cancelled; no write of a task or of a
\* projection of an older epoch is ever applied; the graph's values and
\* histories change only by a write that carries the current epoch.
C17_StaleWriteDropped ==
    /\ [][(TakesUpdate /\ Head(mailbox).ep # epoch) =>
            /\ graph' = graph
            /\ \A id \in TaskIds :
                  (id = <<Head(mailbox).k, Head(mailbox).g>>
                   /\ tasks[id].pc \in {"commit_wait", "reuse_wait"})
                  => tasks'[id].reply.kind = "Cancelled"]_vars
    /\ [][\A id \in TaskIds :
            tasks'[id].nApplied > tasks[id].nApplied => tasks[id].ep = epoch]_vars
    /\ [][\A k \in Keys :
            (graph'[k].val # graph[k].val \/ graph'[k].hist # graph[k].hist
             \/ graph'[k].deps # graph[k].deps \/ graph'[k].present # graph[k].present)
            => (TakesUpdate /\ Head(mailbox).ep = epoch /\ Head(mailbox).k = k)]_vars

\* A task that held the guard was answered Cancelled: its transaction was
\* dropped before the state thread took its write.
C17_Witness ==
    \E id \in TaskIds : /\ tasks[id].reply.kind = "Cancelled" /\ tasks[id].ep < epoch
                         /\ tasks[id].nUpd = 1 /\ tasks[id].nApplied = 0

\* The state thread takes a write of the current epoch for a key whose entry
\* already verifies the version of the write: a second commit.
SecondCommit ==
    /\ TakesUpdate
    /\ Head(mailbox).ep = epoch
    /\ graph[Head(mailbox).k].present
    /\ Head(mailbox).v \in graph[Head(mailbox).k].hist

\* C18: the state thread takes the requests one at a time from the head of
\* its mailbox, in the order they were sent (a step either takes the head or
\* leaves what is queued in place, adding behind it), and a second commit for
\* a key and version of the current epoch carries the stored value and leaves
\* the graph as the first commit left it (the entry, its value, its history),
\* whether it comes from a task or from a projection.
C18_CommitIdempotent ==
    /\ [][\/ mailbox # <<>> /\ mailbox' = Tail(mailbox)
          \/ /\ Len(mailbox') >= Len(mailbox)
             /\ SubSeq(mailbox', 1, Len(mailbox)) = mailbox]_vars
    /\ [][SecondCommit => /\ Head(mailbox).val = graph[Head(mailbox).k].val
                          /\ graph' = graph]_vars

\* The task of the projected key and the projection both had their write
\* applied in the open transaction, the second on an entry that had verified
\* an earlier version as well.
C18_Witness ==
    /\ proj.nApplied = 1
    /\ \E g \in Gens : LET t == tasks[<<ProjKey, g>>] IN
                            t.v = version /\ t.ep = epoch /\ t.nApplied = 1
    /\ graph[ProjKey].hist = 1..version /\ version > 1

\* The order of the states of a DiceTaskHandle.
Rank(h) ==
    CASE h = "Initial" -> 0
      [] h = "CheckingDeps" -> 1
      [] h = "Computing" -> 2
      [] h \in {"Finished", "Cancelled"} -> 3

\* C19: the state of a task's handle only moves forward, Initial, then
\* CheckingDeps when deps are checked, then Computing when the evaluator is
\* called, then Finished or Cancelled when the task ends: no step takes it
\* back (Computing to CheckingDeps), none leaves Finished or Cancelled, and
\* finished is called at most once.
C19_HandleForward ==
    /\ [](\A id \in TaskIds : LET t == tasks[id] IN
            /\ t.nFin <= 1 /\ (t.hstate = "Finished" <=> t.nFin = 1)
            /\ t.pc = "done" <=> t.hstate \in {"Finished", "Cancelled"}
            /\ t.nEval > 0 => t.hstate \in {"Computing", "Finished", "Cancelled"}
            /\ t.hstate = "CheckingDeps" => t.nEval = 0 /\ t.chk # NoCheck
            /\ t.hstate = "Initial" => t.nEval = 0 /\ t.chk = NoCheck)
    /\ [][\A id \in TaskIds :
            (tasks[id].pc # "unused" /\ tasks'[id].pc # "unused") =>
                \/ tasks'[id].hstate = tasks[id].hstate
                \/ Rank(tasks[id].hstate) < Rank(tasks'[id].hstate)]_vars

\* A task went through all the states: its dep check ended Changed, it called
\* the evaluator and finished; another one ended Cancelled.
C19_Witness ==
    /\ \E id \in TaskIds : /\ tasks[id].chk.outcome = "Changed" /\ tasks[id].nEval = 1
                            /\ tasks[id].hstate = "Finished"
    /\ \E id \in TaskIds : tasks[id].hstate = "Cancelled"

\* The UpdateComputed requests in the mailbox.
Writes == {i \in 1..Len(mailbox) : mailbox[i].type = "UpdateComputed"}

\* The tasks whose reuse commit was applied after their deps were checked in
\* another order than the stored one.
ReusedOutOfOrder ==
    {id \in TaskIds : /\ tasks[id].reused /\ tasks[id].nApplied = 1
                      /\ Len(tasks[id].chk.order) > 1
                      /\ tasks[id].chk.order[1] > tasks[id].chk.order[2]}

Checking == {id \in TaskIds : tasks[id].chk # NoCheck}

Constructed(S) == Cardinality({e \in 1..Len(heap) : heap[e].type = S})

\* The engine the typed map holds for S.
Typed(S) == dicemap.typed[S]

\* C22: find_cache for a key type returns that type's engine, constructing
\* and registering it on the first call only; every later find_cache or
\* find_cache_opt for the type returns that same engine and constructs
\* nothing; so a value injected through that engine at version v is what
\* get_cached returns at v, and the key is never computed at v.
C22_FindCacheSameEngine ==
    [][/\ \A S \in KeyTypes :
            /\ Typed(S) # NoEngine => Typed(S)' = Typed(S) /\ Constructed(S)' = 1
            /\ Typed(S) = NoEngine /\ Typed(S)' # NoEngine =>
                  /\ nFinds' = nFinds + 1
                  /\ Constructed(S) = 0 /\ Constructed(S)' = 1
                  /\ heap'[Typed(S)'] = NewEngine(S)
                  /\ \E i \in 1..Len(dicemap'.erased) : dicemap'.erased[i] = Typed(S)'
            /\ \A k \in MapKeys, v \in MapVersions : want'[S][k][v] # 0 =>
                  /\ Typed(S)' # NoEngine
                  /\ GetCached(heap'[Typed(S)'], k, v) = want'[S][k][v]
                  /\ <<k, v>> \notin heap'[Typed(S)'].running
       /\ ret'.op \in {"find_cache", "find_cache_opt"} => ret'.val = dicemap'.typed[ret'.type]
       /\ ret'.op = "find_cache" => ret'.val # NoEngine
       /\ ret'.op = "get_cached" /\ want'[ret'.type][ret'.key][ret'.v] # 0 =>
             ret'.val = want'[ret'.type][ret'.key][ret'.v]
      ]_vars

\* Every find_cache was for one key type, one engine was constructed, and
\* get_cached has returned the value injected into it.
C22_Witness ==
    /\ nFinds = MaxFinds
    /\ Len(heap) = 1
    /\ ret.op = "get_cached"
    /\ ret.val = want[ret.type][ret.key][ret.v]
    /\ ret.val # 0

\* The key types an engine is registered for.
Registered == {S \in KeyTypes : Typed(S) # NoEngine}

\* The sum of f over the key types of T, each taken once.
RECURSIVE SumOver(_, _)
SumOver(T, f) ==
    IF T = {} THEN 0
    ELSE LET S == CHOOSE x \in T : TRUE IN f[S] + SumOver(T \ {S}, f)

\* The keys, and the running keys, of the engines registered so far.
TotalKeys ==
    SumOver(Registered, [S \in Registered |-> LenForIntrospection(heap[Typed(S)])])

TotalRunning ==
    SumOver(Registered, [S \in Registered |-> EngineRunningKeyCount(heap[Typed(S)])])

\* C23: key_count and currently_running_key_count return the sum, over the
\* engines registered so far, of the engine's key count and of its running
\* key count; the erased list holds each registered engine once, and an
\* empty map yields 0 for both.
C23_CountsAreSums ==
    [][/\ ret' # ret /\ ret'.op = "key_count" => ret'.val = TotalKeys'
       /\ ret' # ret /\ ret'.op = "currently_running_key_count" => ret'.val = TotalRunning'
       /\ KeyCount(dicemap, heap)' = TotalKeys'
       /\ CurrentlyRunningKeyCount(dicemap, heap)' = TotalRunning'
       /\ Len(Engines(dicemap))' = Cardinality(Registered')
       /\ \A S \in Registered' : \E i \in 1..Len(dicemap'.erased) : dicemap'.erased[i] = Typed(S)'
       /\ dicemap.erased = <<>> =>
             KeyCount(dicemap, heap) = 0 /\ CurrentlyRunningKeyCount(dicemap, heap) = 0
      ]_vars

\* Two engines are registered, each with a running key and the first with
\* two keys, and currently_running_key_count has returned 2.
C23_Witness ==
    /\ Len(dicemap.erased) = 2
    /\ \A i \in 1..2 : EngineRunningKeyCount(heap[dicemap.erased[i]]) = 1
    /\ LenForIntrospection(heap[dicemap.erased[1]]) = 2
    /\ KeyCount(dicemap, heap) >= 3
    /\ ret.op = "currently_running_key_count"
    /\ ret.val = 2

\* --------------------------------------------------------------- revalidation
\* C24: a revalidation over an empty dep list ends NoDeps and asks for no
\* dep; on NoDeps, as on Changed, the task goes on to one fresh evaluate in
\* state Computing and commits at most what that evaluate returned; a previous
\* value without deps is never re-committed as reused.
C24_NoDepsRecomputes ==
    \A id \in Checking :
        LET t == tasks[id]
            c == t.chk
        IN  /\ c.deps = <<>> => c.outcome = "NoDeps" /\ c.att = <<>> /\ c.order = <<>>
            /\ c.outcome = "NoDeps" => c.deps = <<>>
            /\ c.outcome \in {"NoDeps", "Changed"} =>
                  /\ t.nEval = 1
                  /\ t.pc # "done" => t.hstate = "Computing"
                  /\ ~t.reused
                  /\ t.nUpd <= t.nAct /\ t.nAct <= 1 /\ t.nUpdNoGuard = 0
                  /\ t.pc \in {"eval", "eval_dep", "commit_wait", "done"}

\* A revalidation ended NoDeps, the evaluator ran, and the task waits for
\* the commit of what it returned.
C24_Witness ==
    \E id \in Checking :
        /\ tasks[id].chk.outcome = "NoDeps"
        /\ tasks[id].chk.vv # {}
        /\ tasks[id].pc = "commit_wait"
        /\ tasks[id].nEval = 1
        /\ tasks[id].hstate = "Computing"

\* The promise of the i-th dep the revalidation of task id dispatched.
DispatchedDep(id, i) == tasks[<<tasks[id].chk.deps[i], tasks[id].chk.att[i]>>].promise

\* The deps the revalidation of task id dispatched.
Dispatched(id) == 1..Len(tasks[id].chk.att)

\* The deps whose results the loop of the revalidation has taken.
Yielded(id) == {tasks[id].chk.order[j] : j \in 1..Len(tasks[id].chk.order)}

\* C25 as stated: whenever a dispatched dep computation ends Cancelled, the
\* revalidation does not end Changed or NoChange, whatever the order in which
\* the deps complete, and the parent sends no UpdateComputed and runs no
\* evaluate.
C25_AnyCancelledDepAborts ==
    \A id \in Checking :
        (\E i \in Dispatched(id) : DispatchedDep(id, i).st = "cancelled") =>
            /\ tasks[id].chk.outcome \in {"none", "Cancelled"}
            /\ tasks[id].nUpd = 0
            /\ tasks[id].nEval = 0

\* C25: a cancelled dep result that the loop takes aborts the revalidation
\* with Cancelled, and the parent then sends no UpdateComputed, runs no
\* evaluate and ends cancelled; NoChange is returned only when no dispatched
\* dep was cancelled; Changed is returned as soon as the results taken so far
\* leave no verified version, also when a dep not yet taken is cancelled.
C25_YieldedCancelledDepAborts ==
    \A id \in Checking :
        LET t == tasks[id]
            c == t.chk
        IN  /\ (\E i \in Yielded(id) : DispatchedDep(id, i).st = "cancelled") <=>
                  c.outcome = "Cancelled"
            /\ c.outcome = "Cancelled" =>
                  /\ DispatchedDep(id, c.order[Len(c.order)]).st = "cancelled"
                  /\ t.nUpd = 0 /\ t.nEval = 0 /\ t.nAct = 0 /\ ~t.reused
                  /\ t.pc = "done" /\ t.promise.st = "cancelled"
            /\ c.outcome = "NoChange" =>
                  /\ Yielded(id) = Dispatched(id)
                  /\ \A i \in Dispatched(id) : DispatchedDep(id, i).st = "ok"
            /\ c.outcome = "Changed" =>
                  \A i \in Yielded(id) : DispatchedDep(id, i).st = "ok"

\* Of two deps the first taken was unchanged and the second was cancelled,
\* and the revalidation ended Cancelled.
C25_Witness ==
    \E id \in Checking :
        /\ Len(tasks[id].chk.order) = 2
        /\ DispatchedDep(id, tasks[id].chk.order[1]).st = "ok"
        /\ DispatchedDep(id, tasks[id].chk.order[2]).st = "cancelled"
        /\ tasks[id].chk.outcome = "Cancelled"
        /\ tasks[id].promise.st = "cancelled"

\* C26: on NoChange the UpdateComputed sent carries the previous value of the
\* mismatch and the dep list handed in for validation, same keys in the same
\* order, at the requested version and the epoch of the engine; the evaluator
\* is not called and the task is never in state Computing.
C26_ReuseIsPureRecommit ==
    [][\A id \in TaskIds :
          LET t == tasks[id]
              c == tasks[id].chk
          IN  /\ ~t.reused /\ tasks'[id].reused =>
                    /\ tasks'[id].chk.outcome = "NoChange"
                    /\ mailbox' = Append(mailbox,
                          [type |-> "UpdateComputed", k |-> id[1], g |-> id[2],
                           v |-> version, ep |-> epoch, val |-> c.val, deps |-> c.deps])
                    /\ c.val = graph[id[1]].val /\ c.deps = graph[id[1]].deps
                    /\ t.hstate = "CheckingDeps"
                    /\ tasks'[id].nUpd = 1
              /\ tasks'[id].reused =>
                    /\ tasks'[id].nEval = 0
                    /\ tasks'[id].hstate \in {"CheckingDeps", "Finished", "Cancelled"}
      ]_vars

\* A previous value with two deps was re-committed, the commit was applied,
\* and the task finished with that value without an evaluate.
C26_Witness ==
    \E id \in Checking :
        /\ tasks[id].reused
        /\ Len(tasks[id].chk.deps) = 2
        /\ tasks[id].nApplied = 1
        /\ tasks[id].nEval = 0
        /\ tasks[id].hstate = "Finished"
        /\ tasks[id].promise.val = tasks[id].chk.val
        /\ graph[id[1]].deps = tasks[id].chk.deps

\* ----------------------------------------------------------------- activation
\* C27: with an ActivationTracker installed a task reports at most one
\* activation per run, never after its UpdateComputed, and holds the guard
\* from the report until the commit is answered, after a fresh evaluate
\* (Computed) and after a NoChange revalidation (Reused) alike; a Match hit, a
\* cancelled evaluate and a failed guard acquisition report no activation.
C27_ActivationUnderGuard ==
    \A id \in TaskIds :
        LET t == tasks[id]
        IN  /\ t.nAct <= 1
            /\ t.nUpd <= t.nAct
            /\ t.matched \/ t.guardFailed => t.nAct = 0
            /\ t.nAct = 1 <=> (t.reused \/ (t.nEval = 1 /\ t.pc \in {"commit_wait", "done"}
                                             /\ ~t.guardFailed /\ t.promise.st # "cancelled"))
            /\ t.nAct = 1 /\ t.pc \in {"commit_wait", "reuse_wait"} => t.guard

\* --------------------------------------------------------------------- events
\* Every a of the log precedes every b of it.
Before(ev, a, b) ==
    \A i, j \in 1..Len(ev) : ev[i] = a /\ ev[j] = b => i < j

\* The events of one run, without the order of finished(k) and the commit.
Paired(ev, over) ==
    /\ Count(ev, "started") <= 1
    /\ Count(ev, "finished") <= Count(ev, "started")
    /\ Count(ev, "check_deps_started") <= 1
    /\ Count(ev, "check_deps_finished") <= Count(ev, "check_deps_started")
    /\ Before(ev, "started", "finished")
    /\ Before(ev, "evaluated", "finished")
    /\ Before(ev, "check_deps_started", "check_deps_finished")
    /\ Before(ev, "check_deps_finished", "started")
    /\ Count(ev, "started") = 1 =>
          Count(ev, "check_deps_finished") = Count(ev, "check_deps_started")
    /\ over => /\ Count(ev, "finished") = Count(ev, "started")
               /\ Count(ev, "check_deps_finished") = Count(ev, "check_deps_started")

\* The events of one run are bracketed, and finished(k) follows the commit.
Bracketed(ev, over) == Paired(ev, over) /\ Before(ev, "commit", "finished")

\* C28: on every path, cancellation included, a started(k) is followed by
\* exactly one finished(k), emitted after the evaluator returned and after
\* the commit when one happens; a check_deps_started(k) is followed by exactly
\* one check_deps_finished(k), before any started(k) of the same task; a
\* Match hit emits no event. This holds for the tasks and for the producer
\* of a projection.
C28_EventsBracketed ==
    /\ \A id \in TaskIds : /\ Bracketed(tasks[id].ev, tasks[id].pc = "done")
                           /\ tasks[id].matched => tasks[id].ev = <<>>
    /\ Bracketed(proj.ev, proj.st = "done")

\* ---------------------------------------------------------------- projections
\* C29: project_for_key sends at most one UpdateComputed, none for a
\* transient value; the producer ends in the step in which it sends the write,
\* with the write still in the channel, so without the state's reply; and
\* every caller gets the evaluated value with a history verified at exactly
\* the requested version, whatever the graph holds for the key.
C29_ProjectionFireAndForget ==
    [][/\ proj'.nUpd <= 1
       /\ ProjKey \in transient' => proj'.nUpd = 0
       /\ \A a \in Awaiters :
             LET me == proj.aw[a]
                 sent == [type |-> "UpdateComputed", k |-> ProjKey, g |-> 0, v |-> me.v,
                          ep |-> me.ep, val |-> me.val, deps |-> deps[ProjKey]]
             IN  (me.pc = "running" /\ proj'.aw[a] # me /\ version' = version) =>
                    /\ mailbox' = IF me.valid THEN Append(mailbox, sent) ELSE mailbox
                    /\ proj'.aw[a].pc # "running"
                    /\ me.ep = epoch =>
                          /\ me.val = input[ProjKey] /\ me.v = version
                          /\ proj'.st = "done" /\ proj'.val = me.val /\ proj'.hist = {me.v}
                          /\ proj'.aw[a].ret = Append(me.ret, <<me.val, {me.v}>>)
                          /\ proj'.nUpd = IF me.valid THEN 1 ELSE 0
       /\ proj'.st = "done" =>
             /\ proj'.hist = {version'} /\ proj'.val = input'[ProjKey]
             /\ \A a \in Awaiters : \A i \in 1..Len(proj'.aw[a].ret) :
                   proj'.aw[a].ret[i] = <<input'[ProjKey], {version'}>>
      ]_vars

\* The projection returned a history verified at the open version only,
\* while its write was merged into an entry that verifies the earlier
\* versions as well.
C29_Witness ==
    /\ version > 1
    /\ proj.st = "done"
    /\ proj.hist = {version}
    /\ proj.nUpd = 1 /\ proj.nApplied = 1
    /\ graph[ProjKey].hist = 1..version
    /\ \E a \in Awaiters : proj.aw[a].ret # <<>>

\* ---------------------------------------------------------------- termination
\* The tasks that wait for the termination of the task they replace.
WaitingForPrevious == {id \in TaskIds : tasks[id].pc = "wait_prev"}

\* DicePromise::get_finished_value of task t: Some(value or Cancelled).
HasFinishedValue(t) == t.promise.st \in {"ok", "cancelled"}

\* C30: whenever the termination of a previously cancelled task has resolved
\* to Finished, the promise of that task holds a finished result, a value or
\* Cancelled, so the expect in spawn_for_key never fails, however the old
\* task's completion, its cancellation and the new task's start interleave;
\* a promise is pending exactly as long as the termination is unresolved.
C30_TerminatedHasFinishedValue ==
    /\ \A id \in WaitingForPrevious :
          LET prev == tasks[<<id[1], tasks[id].prev>>]
          IN  /\ prev.pc # "unused"
              /\ prev.term = "finished" => HasFinishedValue(prev)
    /\ \A id \in TaskIds :
          /\ tasks[id].term = "finished" => HasFinishedValue(tasks[id])
          /\ tasks[id].term = "none" <=> tasks[id].promise.st = "pending"
          /\ tasks[id].term # "none" <=> tasks[id].pc = "done"

\* A task waits for a predecessor whose body returned after the cancellation:
\* its termination is Finished and its promise holds Cancelled.
C30_Witness ==
    \E id \in WaitingForPrevious :
        LET prev == tasks[<<id[1], tasks[id].prev>>]
        IN  /\ prev.term = "finished"
            /\ prev.promise.st = "cancelled"
            /\ prev.cancelled

\* ------------------------------------------------------------ the erased list
\* The erased list of m holds the engines constructed so far, h, in the order
\* of their construction, each the engine the typed map holds for its type.
ErasedMirrorsTyped(m, h) ==
    /\ Len(m.erased) = Cardinality({S \in KeyTypes : m.typed[S] # NoEngine})
    /\ Len(m.erased) = Len(h)
    /\ \A i \in 1..Len(m.erased) :
          /\ m.erased[i] = i
          /\ m.typed[h[i].type] = m.erased[i]
    /\ \A S \in KeyTypes : m.typed[S] # NoEngine =>
          Cardinality({i \in 1..Len(m.erased) : m.erased[i] = m.typed[S]}) = 1

\* C31: after any sequence of find_cache and find_cache_opt calls the erased
\* list holds exactly one engine per key type of the typed map, the same
\* engine, in the order of first registration; no engine is ever removed or
\* replaced; find_cache_opt leaves the map as it is and returns None exactly
\* for a type find_cache was never called with.
C31_ErasedOnePerType ==
    [][/\ ErasedMirrorsTyped(dicemap, heap)'
       /\ Len(dicemap'.erased) >= Len(dicemap.erased)
       /\ SubSeq(dicemap'.erased, 1, Len(dicemap.erased)) = dicemap.erased
       /\ \A S \in KeyTypes :
             dicemap.typed[S] # NoEngine => dicemap'.typed[S] = dicemap.typed[S]
       /\ \A i \in 1..Len(heap) : heap'[i].type = heap[i].type
       /\ dicemap' # dicemap => nFinds' = nFinds + 1 /\ ret'.op = "find_cache"
       /\ (ret' # ret /\ ret'.op = "find_cache_opt") =>
             /\ dicemap' = dicemap /\ heap' = heap
             /\ ret'.val = FindCacheOpt(dicemap, ret'.type)
             /\ ret'.val = NoEngine <=> Constructed(ret'.type) = 0
      ]_vars

\* Two key types were registered, find_cache was called again for one of
\* them, and find_cache_opt has returned the engine registered second.
C31_Witness ==
    /\ Len(dicemap.erased) = 2
    /\ nFinds = MaxFinds
    /\ ret.op = "find_cache_opt"
    /\ ret.val = dicemap.erased[2]
    /\ heap[ret.val].type = ret.type
====
